---------------------------- MODULE Spec2Model ----------------------------
(***************************************************************************)
(* Model of policy_learning/cache/traces/train_test_split.py: the script   *)
(* that filters an access trace by cache set, writes the retained          *)
(* accesses chunk-shuffled to all.csv and cuts all.csv into train.csv,      *)
(* valid.csv and test.csv with split/wc/rm/mv/cat.                          *)
(*                                                                         *)
(* A text line of the trace is a pair <<pc, address>> of hexadecimal       *)
(* numerals, a numeral being a sequence of digit values 0..15 (any other   *)
(* value stands for a character that is no hex digit).  Parsed accesses    *)
(* are pairs of integers.  The command-line values are the integers the    *)
(* arithmetic of lines 76-80 and 118-120 is written for.                   *)
(***************************************************************************)
EXTENDS Integers, Sequences, FiniteSets, Bags, TLC

VARIABLES
  args,          \* argparse namespace: capacity, cache_line_size, associativity, batch_size, cache_sets
  file,          \* the lines of access_trace_filename
  pos,           \* number of lines of file the reading loop has consumed
  set_bits,      \* line 79
  num_lines,     \* line 81, 101
  trace,         \* line 87: chunk key -> list of (pc, address)
  tkey,          \* line 88
  set_id,        \* line 99: the set index of the line read last, -1 before
  order,         \* history: the keys random.choice returned, in order
  fs,            \* the working directory: file name -> list of text lines
  split_length,  \* line 118-120
  cmds,          \* history: <<command, exit status>> of every subprocess.run
  error,         \* the exception that ended the run, "none" while it runs
  pc             \* position of the script

vars == <<args, file, pos, set_bits, num_lines, trace, tkey, set_id, order, fs,
          split_length, cmds, error, pc>>

---------------------------------------------------------------------------
(* Bounds of the model *)

\* chunk capacity; the script sets 1000 (line 90), the model scales it down
max_accesses_per_tkey == 8
\* longest enumerated trace (every line sequence up to this length)
MaxShort == 3
\* longest counting trace (line i holds pc = i, address = i)
MaxLong == 31

---------------------------------------------------------------------------
(* Program constants *)

PAPER_CACHE_SETS == 0..31
PREFIX == "_filter_traces"
DefaultAssociativity == 16
DefaultCapacity == 1048576
DefaultLineSize == 4096
DefaultBatchSize == 32

---------------------------------------------------------------------------
(* Pure helpers *)

Min(a, b) == IF a < b THEN a ELSE b

\* np.log2 followed by int(): the floor of the base-2 logarithm, n >= 1
RECURSIVE Log2Floor(_)
Log2Floor(n) == IF n <= 1 THEN 0 ELSE 1 + Log2Floor(n \div 2)

\* a & b on non-negative integers
RECURSIVE BitAnd(_, _)
BitAnd(a, b) ==
  IF a = 0 \/ b = 0 THEN 0
  ELSE (a % 2) * (b % 2) + 2 * BitAnd(a \div 2, b \div 2)

\* int(s, 16): s must be a non-empty numeral of hex digits
IsHex(s) == Len(s) > 0 /\ \A i \in 1..Len(s) : s[i] \in 0..15

RECURSIVE HexValue(_, _)
HexValue(s, n) == IF n = 0 THEN 0 ELSE 16 * HexValue(s, n - 1) + s[n]

HexToInt(s) == HexValue(s, Len(s))

\* f"{n:x}": the numeral without leading zeros
RECURSIVE IntToHex(_)
IntToHex(n) ==
  IF n < 16 THEN <<n>> ELSE Append(IntToHex(n \div 16), n % 16)

\* f"0x{pc:x},0x{address:x}\n"
FormatLine(rec) == <<IntToHex(rec[1]), IntToHex(rec[2])>>

\* lines 95-96
ParseLine(line) == <<HexToInt(line[1]), HexToInt(line[2])>>

WellFormed(line) == IsHex(line[1]) /\ IsHex(line[2])

\* line 76-77
NumSets(a) == (a.capacity \div a.cache_line_size) \div a.associativity

\* line 97-99: set_id = aligned_address & ((1 << set_bits) - 1), no shift
SetId(address, sb) == BitAnd(address, 2 ^ sb - 1)

AcceptsAll(sid, accepted_cache_sets) == TRUE
\* line 100
Accepts(sid, accepted_cache_sets) == sid \in accepted_cache_sets

NextKeyEarly(tr, k) == IF Len(tr[k]) >= max_accesses_per_tkey - 1 THEN k + 1 ELSE k
\* line 102-103: the key the next accepted access goes to
NextKey(tr, k) == IF Len(tr[k]) = max_accesses_per_tkey THEN k + 1 ELSE k

PutFront(tr, k, rec) ==
  IF k \in DOMAIN tr THEN [tr EXCEPT ![k] = <<rec>> \o @]
  ELSE [j \in DOMAIN tr \cup {k} |-> IF j = k THEN <<rec>> ELSE tr[j]]
\* line 104-105: trace[tkey] = [] when the key is new; trace[tkey].append(...)
Put(tr, k, rec) ==
  IF k \in DOMAIN tr THEN [tr EXCEPT ![k] = Append(@, rec)]
  ELSE [j \in DOMAIN tr \cup {k} |-> IF j = k THEN <<rec>> ELSE tr[j]]

\* line 116: del trace[rand_tkey]
Del(tr, k) == [j \in DOMAIN tr \ {k} |-> tr[j]]

\* line 113-114: the text lines of one chunk
ChunkLines(chunk) == [i \in 1..Len(chunk) |-> FormatLine(chunk[i])]

---------------------------------------------------------------------------
(* Inputs *)

Capacities == {DefaultCapacity \div 2, DefaultCapacity, 3 * (DefaultCapacity \div 2)}
BatchSizes == {1, 2}
CacheSetChoices == {PAPER_CACHE_SETS, {0, 1}, PAPER_CACHE_SETS \ {5}}

\* text lines: 0x1,0x0  0x2,0x3  0x3,0x10  0x04,0x12  and one with a non-digit
Lines == { << <<1>>, <<0>> >>, << <<2>>, <<3>> >>, << <<3>>, <<1, 0>> >>,
           << <<0, 4>>, <<1, 2>> >>, << <<16>>, <<0>> >> }

RECURSIVE SeqsUpTo(_, _)
SeqsUpTo(S, n) ==
  IF n = 0 THEN {<<>>}
  ELSE LET shorter == SeqsUpTo(S, n - 1)
       IN  shorter \cup {Append(s, x) : s \in {t \in shorter : Len(t) = n - 1}, x \in S}

LongFile(n) == [i \in 1..n |-> <<IntToHex(i), IntToHex(i)>>]

Files == SeqsUpTo(Lines, MaxShort) \cup {LongFile(n) : n \in 0..MaxLong}

\* files left in the directory by an earlier run
StaleLine == << <<15>>, <<15>> >>
PartName(i) == PREFIX \o (IF i < 10 THEN "0" ELSE "") \o ToString(i)
Directories ==
  { <<>>,
    [n \in {PartName(10), "valid.csv"} |-> <<StaleLine>>] }

---------------------------------------------------------------------------
(* State after argument parsing (line 66), before line 76 *)

Init ==
  /\ args \in [capacity : Capacities, cache_line_size : {DefaultLineSize},
               associativity : {DefaultAssociativity}, batch_size : BatchSizes,
               cache_sets : CacheSetChoices]
  /\ file \in Files
  /\ fs \in Directories
  /\ pos = 0
  /\ set_bits = 0
  /\ num_lines = 0
  /\ trace = <<>>
  /\ tkey = 0
  /\ set_id = -1
  /\ order = <<>>
  /\ split_length = 0
  /\ cmds = <<>>
  /\ error = "none"
  /\ pc = "config"

---------------------------------------------------------------------------
(* Lines 76-90: geometry, the assertion, the empty buffer *)

\* line 79-80: set_bits = int(np.log2(num_sets)); assert set_bits == 4
ConfigCheck(a) == Log2Floor(NumSets(a)) = 4

ConfigOk ==
  /\ pc = "config"
  /\ NumSets(args) >= 1
  /\ ConfigCheck(args)
  /\ set_bits' = Log2Floor(NumSets(args))
  /\ num_lines' = 0
  /\ tkey' = 0
  /\ trace' = [k \in {0} |-> <<>>]
  /\ pc' = "reading"
  /\ UNCHANGED <<args, file, pos, set_id, order, fs, split_length, cmds, error>>

ConfigFail ==
  /\ pc = "config"
  /\ NumSets(args) >= 1
  /\ ~ConfigCheck(args)
  /\ set_bits' = Log2Floor(NumSets(args))
  /\ error' = "AssertionError"
  /\ pc' = "aborted"
  /\ UNCHANGED <<args, file, pos, num_lines, trace, tkey, set_id, order, fs,
                 split_length, cmds>>

---------------------------------------------------------------------------
(* Lines 93-105: the reading loop, one iteration per line of the trace *)

ReadLineCountsAll ==
  /\ pc = "reading"
  /\ pos < Len(file)
  /\ WellFormed(file[pos + 1])
  /\ LET rec == ParseLine(file[pos + 1])
         sid == SetId(rec[2], set_bits)
     IN  /\ set_id' = sid
         /\ num_lines' = num_lines + 1
         /\ IF Accepts(sid, args.cache_sets)
            THEN /\ tkey' = NextKey(trace, tkey)
                 /\ trace' = Put(trace, NextKey(trace, tkey), rec)
            ELSE UNCHANGED <<tkey, trace>>
  /\ pos' = pos + 1
  /\ UNCHANGED <<args, file, set_bits, order, fs, split_length, cmds, error, pc>>
\* line 94-105: one iteration on a line both of whose fields parse
ReadLine ==
  /\ pc = "reading"
  /\ pos < Len(file)
  /\ WellFormed(file[pos + 1])
  /\ LET rec == ParseLine(file[pos + 1])
         sid == SetId(rec[2], set_bits)
     IN  /\ set_id' = sid
         /\ IF Accepts(sid, args.cache_sets)
            THEN /\ num_lines' = num_lines + 1
                 /\ tkey' = NextKey(trace, tkey)
                 /\ trace' = Put(trace, NextKey(trace, tkey), rec)
            ELSE UNCHANGED <<num_lines, tkey, trace>>
  /\ pos' = pos + 1
  /\ UNCHANGED <<args, file, set_bits, order, fs, split_length, cmds, error, pc>>

\* int(pc, 16) or int(address, 16) raises ValueError
ReadBadLine ==
  /\ pc = "reading"
  /\ pos < Len(file)
  /\ ~WellFormed(file[pos + 1])
  /\ error' = "ValueError"
  /\ pc' = "aborted"
  /\ UNCHANGED <<args, file, pos, set_bits, num_lines, trace, tkey, set_id, order, fs,
                 split_length, cmds>>

---------------------------------------------------------------------------
(* Lines 108-116: all.csv is opened for writing, chunks are drained *)

WriteFile(dir, name, content) ==
  [n \in DOMAIN dir \cup {name} |-> IF n = name THEN content ELSE dir[n]]

RemoveFilesAndAll(dir, names) == [n \in DOMAIN dir \ (names \cup {"all.csv"}) |-> dir[n]]
\* rm: the directory without the files named
RemoveFiles(dir, names) == [n \in DOMAIN dir \ names |-> dir[n]]

\* line 109: open("all.csv", "w") at the end of the input
OpenAll ==
  /\ pc = "reading"
  /\ pos = Len(file)
  /\ fs' = WriteFile(fs, "all.csv", <<>>)
  /\ pc' = "writing"
  /\ UNCHANGED <<args, file, pos, set_bits, num_lines, trace, tkey, set_id, order,
                 split_length, cmds, error>>

DrainClear(tr, k) == <<>>
\* line 113-116: what remains of the buffer after chunk k was written
DrainRest(tr, k) == Del(tr, k)

DrainOneLine(chunk) == IF Len(chunk) = 0 THEN <<>> ELSE <<FormatLine(Head(chunk))>>
\* line 113-114: what one iteration writes for the chosen chunk
DrainEmit(chunk) == ChunkLines(chunk)

\* line 110-116: one iteration of while trace
DrainStep ==
  /\ pc = "writing"
  /\ DOMAIN trace # {}
  /\ \E rand_tkey \in DOMAIN trace :
       /\ fs' = [fs EXCEPT !["all.csv"] = @ \o DrainEmit(trace[rand_tkey])]
       /\ trace' = DrainRest(trace, rand_tkey)
       /\ order' = Append(order, rand_tkey)
  /\ UNCHANGED <<args, file, pos, set_bits, num_lines, tkey, set_id,
                 split_length, cmds, error, pc>>

---------------------------------------------------------------------------
(* Lines 118-120: the split length *)

SplitLengthUnrounded(n, b) == n \div 10
\* split_length = num_lines // 10; split_length // batch_size * batch_size
SplitLength(n, b) == ((n \div 10) \div b) * b

\* the with-block of line 109 ends when the buffer is empty
ComputeSplit ==
  /\ pc = "writing"
  /\ DOMAIN trace = {}
  /\ split_length' = SplitLength(num_lines, args.batch_size)
  /\ pc' = "split"
  /\ UNCHANGED <<args, file, pos, set_bits, num_lines, trace, tkey, set_id, order, fs,
                 cmds, error>>

---------------------------------------------------------------------------
(* Lines 122-153: the external commands, each run with check=True.  A      *)
(* command exits non-zero when its operands make it fail, and it may exit  *)
(* non-zero for a reason outside the script (disk, permissions, a signal). *)

CheckIgnored(rc, nxt) == nxt
\* subprocess.run(cmd, check=True, shell=True): CalledProcessError on rc # 0
Check(rc, nxt) == IF rc = 0 THEN nxt ELSE "aborted"

Run(cmd, rc, nxt, dir) ==
  /\ cmds' = Append(cmds, <<cmd, rc>>)
  /\ pc' = Check(rc, nxt)
  /\ error' = IF Check(rc, nxt) = "aborted" THEN "CalledProcessError" ELSE error
  /\ fs' = dir
  /\ UNCHANGED <<args, file, pos, set_bits, num_lines, trace, tkey, set_id, order,
                 split_length>>

\* split -l L --numeric-suffixes all.csv PREFIX: ceil(n / L) parts of L lines
NumParts(content, L) == (Len(content) + L - 1) \div L

PartContent(content, L, i) ==
  SubSeq(content, i * L + 1, Min((i + 1) * L, Len(content)))

\* the directory after split wrote its first j parts
SplitWrite(dir, L, j) ==
  LET made == {PartName(i) : i \in 0..(j - 1)}
  IN  [n \in DOMAIN dir \cup made |->
         IF n \in made
         THEN PartContent(dir["all.csv"], L,
                          CHOOSE i \in 0..(j - 1) : PartName(i) = n)
         ELSE dir[n]]

\* line 122-124
SplitOk ==
  /\ pc = "split"
  /\ split_length >= 1
  /\ Run("split", 0, "wc",
         SplitWrite(fs, split_length, NumParts(fs["all.csv"], split_length)))

\* split rejects -l 0 before it writes anything; otherwise it may stop
\* before its first part or with every part but the last written
SplitFail ==
  /\ pc = "split"
  /\ \E j \in (IF split_length = 0 THEN {0}
               ELSE {0, NumParts(fs["all.csv"], split_length) - 1}) :
       Run("split", 1, "wc",
           IF split_length = 0 THEN fs ELSE SplitWrite(fs, split_length, j))

\* line 127-129: wc -l PREFIX10
WcOk ==
  /\ pc = "wc"
  /\ PartName(10) \in DOMAIN fs
  /\ Run("wc", 0, "rm10", fs)

WcFail ==
  /\ pc = "wc"
  /\ Run("wc", 1, "rm10", fs)

\* line 131-133: rm PREFIX10
Rm10Ok ==
  /\ pc = "rm10"
  /\ PartName(10) \in DOMAIN fs
  /\ Run("rm10", 0, "mv09", RemoveFiles(fs, {PartName(10)}))

Rm10Fail ==
  /\ pc = "rm10"
  /\ Run("rm10", 1, "mv09", fs)

\* mv src dst
Move(dir, src, dst) == RemoveFiles(WriteFile(dir, dst, dir[src]), {src})

\* line 138-140: mv PREFIX09 test.csv
Mv09Ok ==
  /\ pc = "mv09"
  /\ PartName(9) \in DOMAIN fs
  /\ Run("mv09", 0, "mv08", Move(fs, PartName(9), "test.csv"))

Mv09Fail ==
  /\ pc = "mv09"
  /\ Run("mv09", 1, "mv08", fs)

\* line 142-144: mv PREFIX08 valid.csv
Mv08Ok ==
  /\ pc = "mv08"
  /\ PartName(8) \in DOMAIN fs
  /\ Run("mv08", 0, "cat", Move(fs, PartName(8), "valid.csv"))

Mv08Fail ==
  /\ pc = "mv08"
  /\ Run("mv08", 1, "cat", fs)

GlobNarrow(dir) == {i \in 0..6 : PartName(i) \in DOMAIN dir}
\* the shell pattern PREFIX0[0-7]: the part numbers that match
Glob(dir) == {i \in 0..7 : PartName(i) \in DOMAIN dir}

\* cat of the parts numbered in S below j, in ascending order of name
RECURSIVE ConcatParts(_, _, _)
ConcatParts(dir, S, j) ==
  IF j = 0 THEN <<>>
  ELSE ConcatParts(dir, S, j - 1)
         \o (IF (j - 1) \in S THEN dir[PartName(j - 1)] ELSE <<>>)

\* line 146-148: cat PREFIX0[0-7] > train.csv
CatOk ==
  /\ pc = "cat"
  /\ Glob(fs) # {}
  /\ Run("cat", 0, "rm0_7", WriteFile(fs, "train.csv", ConcatParts(fs, Glob(fs), 8)))

\* the shell creates train.csv before cat runs; cat may stop before its
\* first operand or before its last
CatFail ==
  /\ pc = "cat"
  /\ \E j \in {0, 7} :
       Run("cat", 1, "rm0_7", WriteFile(fs, "train.csv", ConcatParts(fs, Glob(fs), j)))

\* line 151-153: rm PREFIX0[0-7]
Rm07Ok ==
  /\ pc = "rm0_7"
  /\ Glob(fs) # {}
  /\ Run("rm0_7", 0, "done", RemoveFiles(fs, {PartName(i) : i \in Glob(fs)}))

Rm07Fail ==
  /\ pc = "rm0_7"
  /\ Run("rm0_7", 1, "done", fs)

---------------------------------------------------------------------------

Next ==
  \/ ConfigOk
  \/ ConfigFail
  \/ ReadLine
  \/ ReadBadLine
  \/ OpenAll
  \/ DrainStep
  \/ ComputeSplit
  \/ SplitOk
  \/ SplitFail
  \/ WcOk
  \/ WcFail
  \/ Rm10Ok
  \/ Rm10Fail
  \/ Mv09Ok
  \/ Mv09Fail
  \/ Mv08Ok
  \/ Mv08Fail
  \/ CatOk
  \/ CatFail
  \/ Rm07Ok
  \/ Rm07Fail

Spec == Init /\ [][Next]_vars

\* the interpreter keeps executing the loop of line 110 while it can
FairSpec == Spec /\ WF_vars(DrainStep)

---------------------------------------------------------------------------
(* Reference notions the properties are stated with *)

CommandStates == {"split", "wc", "rm10", "mv09", "mv08", "cat", "rm0_7"}
CommandOrder == <<"split", "wc", "rm10", "mv09", "mv08", "cat", "rm0_7">>

\* the drain loop has ended: the script is at or past the first command
Drained ==
  \/ pc \in CommandStates \cup {"done"}
  \/ pc = "aborted" /\ error = "CalledProcessError"

\* the low set_bits bits of an address
DecodedSetIndex(address) == address % (2 ^ set_bits)

\* an input line the filter is to keep
Kept(line) ==
  WellFormed(line) /\ DecodedSetIndex(HexToInt(line[2])) \in args.cache_sets

\* the accesses of the kept lines among the first n lines, in input order
RECURSIVE AcceptedUpTo(_)
AcceptedUpTo(n) ==
  IF n = 0 THEN <<>>
  ELSE IF Kept(file[n]) THEN Append(AcceptedUpTo(n - 1), ParseLine(file[n]))
       ELSE AcceptedUpTo(n - 1)

AcceptedCount == Cardinality({i \in 1..Len(file) : Kept(file[i])})

\* the sequence s as a multiset
SeqBag(s) ==
  [x \in {s[i] : i \in DOMAIN s} |-> Cardinality({i \in DOMAIN s : s[i] = x})]

\* the chunks still in the buffer, one after the other
RECURSIVE Flatten(_)
Flatten(tr) ==
  IF DOMAIN tr = {} THEN <<>>
  ELSE LET k == CHOOSE j \in DOMAIN tr : \A i \in DOMAIN tr : j <= i
       IN  tr[k] \o Flatten(Del(tr, k))

\* the files of the directory this run has written among the four outputs
RunOutputs ==
  ({"all.csv", "train.csv", "test.csv"} \cap DOMAIN fs)
    \cup {n \in {"valid.csv"} : \E i \in DOMAIN cmds : cmds[i] = <<"mv08", 0>>}

\* the split length the accepted count and the batch size call for
PlannedLength == ((AcceptedCount \div 10) \div args.batch_size) * args.batch_size

NumChunks == IF AcceptedCount = 0 THEN 1
             ELSE (AcceptedCount + max_accesses_per_tkey - 1) \div max_accesses_per_tkey

\* the accepted accesses in input order, as text lines
AcceptedLines == ChunkLines(AcceptedUpTo(Len(file)))

\* accepted accesses number k*K .. min((k+1)*K, N) - 1 of lines
InputChunk(lines, k) ==
  SubSeq(lines, k * max_accesses_per_tkey + 1,
         Min((k + 1) * max_accesses_per_tkey, Len(lines)))

RECURSIVE ConcatChunks(_, _)
ConcatChunks(lines, keys) ==
  IF Len(keys) = 0 THEN <<>>
  ELSE InputChunk(lines, Head(keys)) \o ConcatChunks(lines, Tail(keys))

IsPowerOfTwo(n) == \E e \in 0..30 : 2 ^ e = n

---------------------------------------------------------------------------
(* Properties *)

\* C1: every access in the chunk buffer, and every line this run wrote to
\* all.csv, train.csv, valid.csv or test.csv, has a decoded set index that
\* is a member of the accepted set.
C1_OnlyAcceptedRetained ==
  /\ \A k \in DOMAIN trace : \A i \in 1..Len(trace[k]) :
       DecodedSetIndex(trace[k][i][2]) \in args.cache_sets
  /\ \A n \in RunOutputs : \A i \in 1..Len(fs[n]) :
       DecodedSetIndex(HexToInt(fs[n][i][2])) \in args.cache_sets

\* the run finished on a trace with rejected lines and a non-empty train.csv
C1_Witness ==
  /\ pc = "done"
  /\ num_lines < pos
  /\ Len(fs["train.csv"]) > 0

\* C2: after every prefix of the input, num_lines is the number of lines
\* read so far whose set index is accepted, and while the buffer is being
\* filled it is the sum of the lengths of the chunks.
C2_CountExact ==
  pc # "config" =>
    /\ num_lines = Cardinality({i \in 1..pos : Kept(file[i])})
    /\ (pc = "reading" \/ error = "ValueError") => num_lines = Len(Flatten(trace))

\* end of Reading with accepted and rejected lines and two chunks
C2_Witness ==
  /\ pc = "reading"
  /\ pos = Len(file)
  /\ num_lines > max_accesses_per_tkey
  /\ num_lines < pos
  /\ Cardinality(DOMAIN trace) >= 2

\* C3: what the drain has written to all.csv together with what is still
\* buffered is, as a multiset, the accepted accesses; once the drain has
\* ended all.csv alone is that multiset, and it is empty when nothing was
\* accepted; the drain raises no error.
C3_DrainExactlyOnce ==
  /\ pc = "writing" =>
       /\ error = "none"
       /\ SeqBag(fs["all.csv"] \o ChunkLines(Flatten(trace))) = SeqBag(AcceptedLines)
  /\ Drained =>
       /\ SeqBag(fs["all.csv"]) = SeqBag(AcceptedLines)
       /\ Len(fs["all.csv"]) = AcceptedCount
       /\ AcceptedCount = 0 => fs["all.csv"] = <<>>

\* the drain ended after three or more chunks, the last one partly filled,
\* taken in an order that does not start with chunk 0
C3_Witness ==
  /\ pc = "split"
  /\ Len(order) >= 3
  /\ order[1] # 0
  /\ num_lines % max_accesses_per_tkey # 0

\* C4: all.csv is the concatenation, in the order the keys were chosen, of
\* whole chunks; chunk k holds the accepted accesses number k*K ..
\* min((k+1)*K, N) - 1 in input order; no key is chosen twice and, once the
\* drain has ended, every key 0 .. NumChunks-1 has been chosen.
C4_WholeChunksInOrder ==
  (pc = "writing" \/ Drained) =>
    /\ LET lines == AcceptedLines IN fs["all.csv"] = ConcatChunks(lines, order)
    /\ \A i \in DOMAIN order : order[i] \in 0..(NumChunks - 1)
    /\ \A i, j \in DOMAIN order : i # j => order[i] # order[j]
    /\ Drained => Len(order) = NumChunks

\* the drain ended with a later chunk written before an earlier one and a
\* partly filled last chunk
C4_Witness ==
  /\ pc = "split"
  /\ Len(order) >= 3
  /\ order[1] > order[2]
  /\ num_lines % max_accesses_per_tkey # 0

\* C5: at Done, with L = floor(floor(N/10)/B)*B, train.csv holds 8*L lines,
\* valid.csv L and test.csv L, each a multiple of B, and N - 10*L accepted
\* accesses are in none of the three; with B = 1, L = floor(N/10) and
\* N mod 10 are dropped; N = 1000, B = 32 gives L = 96.
C5_SplitSizes ==
  /\ SplitLength(1000, DefaultBatchSize) = 96
  /\ pc = "done" =>
       LET L       == PlannedLength
           written == Len(fs["train.csv"]) + Len(fs["valid.csv"]) + Len(fs["test.csv"])
       IN  /\ split_length = L
           /\ Len(fs["train.csv"]) = 8 * L
           /\ Len(fs["valid.csv"]) = L
           /\ Len(fs["test.csv"]) = L
           /\ L % args.batch_size = 0
           /\ Len(fs["all.csv"]) - written = AcceptedCount - 10 * L
           /\ args.batch_size = 1 =>
                /\ L = AcceptedCount \div 10
                /\ Len(fs["all.csv"]) - written = AcceptedCount % 10

\* Done with batch size 2 and an odd floor(N/10): the length was rounded
C5_Witness ==
  /\ pc = "done"
  /\ args.batch_size = 2
  /\ (AcceptedCount \div 10) % 2 = 1

\* C6: at Done train.csv is positions 0 .. 8L-1 of all.csv in stream order,
\* valid.csv is positions 8L .. 9L-1 and test.csv positions 9L .. 10L-1.
C6_SlicesOfStream ==
  pc = "done" =>
    LET L == PlannedLength
        all == fs["all.csv"]
    IN  /\ fs["train.csv"] = SubSeq(all, 1, 8 * L)
        /\ fs["valid.csv"] = SubSeq(all, 8 * L + 1, 9 * L)
        /\ fs["test.csv"] = SubSeq(all, 9 * L + 1, 10 * L)

\* Done with parts of two or more lines cut from a shuffled stream
C6_Witness ==
  /\ pc = "done"
  /\ split_length >= 2
  /\ Len(order) >= 2
  /\ order[1] # 0

\* C7: when N < 10 or floor(N/10) < B, so that the split length is 0, the
\* run does not abort because of the zero length: it is never found aborted
\* at the split command with split length 0.
C7_ZeroLengthDoesNotAbort ==
  (Drained /\ (AcceptedCount < 10 \/ AcceptedCount \div 10 < args.batch_size)) =>
    ~(pc = "aborted" /\ split_length = 0 /\ cmds = << <<"split", 1>> >>)

C10_FatalExternalFailure ==
  /\ Len(cmds) <= Len(CommandOrder)
  /\ \A i \in DOMAIN cmds : cmds[i][1] = CommandOrder[i]
  /\ \A i \in DOMAIN cmds :
       cmds[i][2] # 0 => (i = Len(cmds) /\ pc = "aborted")
  /\ pc = "done" =>
       /\ Len(cmds) = Len(CommandOrder)
       /\ \A i \in DOMAIN cmds : cmds[i][2] = 0
  /\ pc \in CommandStates =>
       /\ Len(cmds) < Len(CommandOrder)
       /\ pc = CommandOrder[Len(cmds) + 1]

\* the sixth command, cat, exited non-zero after five that succeeded
C10_Witness ==
  /\ pc = "aborted"
  /\ Len(cmds) = 6
  /\ cmds[6] = <<"cat", 1>>

\* command c has run and exited with status 0
Succeeded(c) == \E i \in DOMAIN cmds : cmds[i] = <<c, 0>>

\* command c has run, with whatever exit status
Started(c) == \E i \in DOMAIN cmds : cmds[i][1] = c

\* C11: in every state in which the run has aborted, train.csv, valid.csv
\* and test.csv are either all three fully produced by this run or none of
\* them has been produced or created by it.
C11_AllOrNothingOnAbort ==
  pc = "aborted" =>
    \/ Succeeded("mv09") /\ Succeeded("mv08") /\ Succeeded("cat")
    \/ ~Succeeded("mv09") /\ ~Succeeded("mv08") /\ ~Started("cat")

\* the parts the split command of this run has written
PartsCreated ==
  IF Succeeded("split")
  THEN {PartName(i) : i \in 0..(NumParts(fs["all.csv"], split_length) - 1)}
  ELSE {}

\* C12: at Done none of the parts the split step created is left in the
\* directory, whatever their number.
C12_NoPartLeftAtDone ==
  pc = "done" => PartsCreated \cap DOMAIN fs = {}

\* the configuration the parser's defaults give (batch size aside)
DefaultGeometry ==
  /\ args.capacity = DefaultCapacity
  /\ args.cache_line_size = DefaultLineSize
  /\ args.associativity = DefaultAssociativity
  /\ args.cache_sets = PAPER_CACHE_SETS

\* C13: in a run that passed the configuration check, every accepted
\* cache-set index lies in 0 .. num_sets - 1; stated for the default
\* configuration, the case the claim names in particular.
C13_AcceptedSetsInRange ==
  (pc = "reading" /\ DefaultGeometry) =>
    \A s \in args.cache_sets : 0 <= s /\ s < NumSets(args)

\* the shape of the buffer while it is filled
ChunkShape ==
  /\ DOMAIN trace = 0..tkey
  /\ \A k \in 0..(tkey - 1) : Len(trace[k]) = max_accesses_per_tkey
  /\ Len(trace[tkey]) <= max_accesses_per_tkey
  /\ Len(trace[tkey]) = 0 => num_lines = 0

\* what one step of Reading may change in the buffer
AppendFrame ==
  /\ tkey' >= tkey
  /\ \A k \in DOMAIN trace : k < tkey => trace'[k] = trace[k]
  /\ \A k \in DOMAIN trace' : k # tkey' => (k \in DOMAIN trace /\ trace'[k] = trace[k])

\* C14: during Reading the chunk keys are exactly 0..tkey, every chunk
\* below tkey holds exactly K records and is not modified again, chunk tkey
\* holds at most K records and is empty only while nothing has been
\* accepted, and a step changes no chunk but the one with the highest key.
C14_ChunksFillInOrder ==
  /\ [](pc = "reading" => ChunkShape)
  /\ [][(pc = "reading" /\ pc' = "reading") => AppendFrame]_vars

\* Reading with two sealed chunks and a partly filled third
C14_Witness ==
  /\ pc = "reading"
  /\ tkey = 2
  /\ Len(trace[tkey]) \in 1..(max_accesses_per_tkey - 1)

\* the keys the drain has chosen so far
Chosen == {order[i] : i \in DOMAIN order}

\* C15: the drain loop ends; it makes as many iterations as there are
\* chunks at the end of Reading (tkey + 1), each on a key that is still in
\* the buffer, every key is chosen and removed exactly once, and the buffer
\* is empty when the loop is left.
C15_DrainTerminates ==
  /\ [](pc = "writing" =>
          /\ Chosen \cap DOMAIN trace = {}
          /\ Chosen \cup DOMAIN trace = 0..tkey
          /\ Len(order) = Cardinality(Chosen))
  /\ [](Drained => (DOMAIN trace = {} /\ Len(order) = tkey + 1))
  /\ [][(pc = "writing" /\ order' # order) =>
          /\ Len(order') = Len(order) + 1
          /\ order'[Len(order')] \in DOMAIN trace
          /\ DOMAIN trace' = DOMAIN trace \ {order'[Len(order')]}]_vars
  /\ (pc = "writing") ~> (pc = "writing" /\ DOMAIN trace = {})

\* the loop was left after four iterations that began with the last chunk
C15_Witness ==
  /\ pc = "split"
  /\ tkey = 3
  /\ Len(order) = 4
  /\ order[1] = 3

\* the files the pending command reads or renames are in the directory
OperandsExist ==
  CASE pc = "split" -> "all.csv" \in DOMAIN fs
    [] pc \in {"wc", "rm10"} -> PartName(10) \in DOMAIN fs
    [] pc = "mv09" -> PartName(9) \in DOMAIN fs
    [] pc = "mv08" -> PartName(8) \in DOMAIN fs
    [] pc \in {"cat", "rm0_7"} -> Glob(fs) # {}
    [] OTHER -> TRUE

\* C16: with a split length of at least 1 and utilities that succeed on
\* files that exist, the run reaches Done, also when N = 10*L.  The script
\* being straight-line, this is: whenever it is about to run a command,
\* the files that command names exist.
C16_ReachesDoneWhenLengthPositive ==
  (pc \in CommandStates /\ split_length >= 1) => OperandsExist

\* C17: from the end of Shuffling on, in running, finished and aborted
\* states alike, all.csv is in the directory and holds the N emitted
\* records in emission order; no step of Splitting changes it.
C17_AllCsvUntouched ==
  /\ [](pc = "split" =>
          LET lines == AcceptedLines IN fs["all.csv"] = ConcatChunks(lines, order))
  /\ [](Drained => ("all.csv" \in DOMAIN fs /\ Len(fs["all.csv"]) = AcceptedCount))
  /\ [][Drained => ("all.csv" \in DOMAIN fs' /\ fs'["all.csv"] = fs["all.csv"])]_vars

\* Done with records in all.csv beyond the ten parts of the outputs
C17_Witness ==
  /\ pc = "done"
  /\ split_length >= 1
  /\ Len(fs["all.csv"]) > 10 * split_length
  /\ Len(fs["train.csv"]) = 8 * split_length

=============================================================================
